---------------------------- MODULE Spec2Model ----------------------------
(***************************************************************************)
(* A model of blendgen (package simian): the worker's run_job              *)
(* (src/simian/worker.py), the render driver render_scene                  *)
(* (src/simian/render.py), the world background (src/simian/background.py) *)
(* and the upload that src/tests/hf_test.py exercises.                     *)
(*                                                                         *)
(* Strings are TLA+ strings: str(n) is ToString(n), an f-string is a       *)
(* concatenation with \o, os.path.join(a, b) is a \o "/" \o b.             *)
(***************************************************************************)
EXTENDS Integers, Sequences, FiniteSets, TLC

(***************************************************************************)
(* Bounds of the model.                                                    *)
(***************************************************************************)
\* run_job calls made in one behaviour, over all worker processes
MaxJobs == 2
\* longest combination_indeces list given to run_job
MaxBatch == 2
\* last reading of the clock time.time()
MaxTime == 1

\* worker processes of one host (a Celery worker forks several); they share
\* the host's file system and clock
Workers == {"w1", "w2"}
\* output_dir arguments given to run_job
OutputDirs == {"renders"}
\* combination_indeces lists given to run_job: the first n indices
JobBatches == {[k \in 1..n |-> k - 1] : n \in 0..MaxBatch}
\* (width, height) pairs given to run_job
JobSizes == {<<512, 512>>}

VARIABLES
    now,        \* the reading time.time() gives at this moment
    wpc,        \* wpc[w]: where worker process w is in run_job
    cur,        \* cur[w]: the job (index into jobs) w is running, 0 if none
    lastT,      \* lastT[w]: w's latest reading of the clock, -1 if none
    jobs,       \* one record per run_job call: arguments, locals, history
    procs,      \* the render subprocesses now running
    dirs,       \* directories that exist on the host
    files       \* files on the host: [dir, name, by (the job that wrote it)]

workerVars == <<now, wpc, cur, lastT, jobs, procs, dirs, files>>

VARIABLES
    rpc,        \* where the render process is in render_scene
    rarg,       \* the arguments of this render_scene call, and args
    call,       \* which render invocation into output_dir this is
    blend,      \* the file user_blend_file names: "missing", "corrupt", "ok"
    scene,      \* bpy.context.scene, and the objects loaded into it
    rlog,       \* what logger.error has logged
    renders,    \* the invocations of bpy.ops.render.render
    outfiles,   \* files in output_dir: [name, combination_index, call]
    rexc,       \* the exception that left render_scene, "none" if none
    random_folder   \* infinigen/outputs/random: the folders in it, and the
                    \* calls in which delete_folder ran

renderVars ==
    <<rpc, rarg, call, blend, scene, rlog, renders, outfiles, rexc,
      random_folder>>

VARIABLES
    world,      \* bpy.context.scene.world: its node tree and render flag
    hdr,        \* the background images on disk: [path, content]
    requests,   \* the URLs requests.get was called with
    bgpc,       \* where the caller of background.py is
    bgarg,      \* the combination's background and the base directory
    bgexc       \* the exception that left set_background, "none" if none

bgVars == <<world, hdr, requests, bgpc, bgarg, bgexc>>

VARIABLES
    upc,        \* where the upload is
    udir,       \* the names of the files in the local directory
    ucomb,      \* the combination: repo_id, upload_path
    remote,     \* the files of the dataset repositories: [repo_id, path]
    utodo       \* files of the directory not yet uploaded

upVars == <<upc, udir, ucomb, remote, utodo>>

vars == <<workerVars, renderVars, bgVars, upVars>>

\* the parts of the program a specification leaves alone
RenderIdle ==
    /\ rpc = "none"
    /\ rarg = << >>
    /\ call = 0
    /\ blend = "missing"
    /\ scene = << >>
    /\ rlog = << >>
    /\ renders = << >>
    /\ outfiles = {}
    /\ rexc = "none"
    /\ random_folder = [generated |-> {}, deleted_in |-> {}]

BgIdle ==
    /\ world = << >>
    /\ hdr = {}
    /\ requests = << >>
    /\ bgpc = "none"
    /\ bgarg = << >>
    /\ bgexc = "none"

UpIdle ==
    /\ upc = "none"
    /\ udir = {}
    /\ ucomb = << >>
    /\ remote = {}
    /\ utodo = {}

WorkerIdle ==
    /\ now = 0
    /\ wpc = [w \in Workers |-> "idle"]
    /\ cur = [w \in Workers |-> 0]
    /\ lastT = [w \in Workers |-> -1]
    /\ jobs = << >>
    /\ procs = {}
    /\ dirs = {}
    /\ files = {}

(***************************************************************************)
(* src/simian/worker.py                                                    *)
(***************************************************************************)

\* output_dir += str(time.time())
JobDir(output_dir, t) == output_dir \o ToString(t)

\* the files a render invocation that exits 0 leaves in --output_dir
\* (render.py, video mode: run_job never passes --images)
VideoNameNoIndex(combination_index) == "video.mp4"

VideoName(combination_index) == ToString(combination_index) \o ".mp4"

BlendName(combination_index) == ToString(combination_index) \o ".blend"

\* args of one render invocation, as the f-strings of lines 53-57 build them
RenderArgs(j, i) ==
    [width |-> j.width, height |-> j.height,
     combination_index |-> j.combination_indeces[i + 1],
     output_dir |-> j.dir]

\* the for loop of line 51 is over, and line 64 is reached, when i has run
\* through range(batch_size)
UploadInLoop(i, batch_size) == TRUE

LoopOver(i, batch_size) == i = batch_size

\* subprocess.run returns when the child has exited: until then the worker
\* process waits
NoWait == "loop"

AfterSubprocessStart == "wait"

\* subprocess.run(..., check=True) raises CalledProcessError on a non-zero
\* exit status
CheckIgnored(status) == FALSE

CheckRaises(status) == status # 0

\* distributaur.upload_directory(output_dir): every file under the directory
FilesIn(d) == {f \in files : f.dir = d}

\* lines 39-47: a worker process takes a job; the directory is named by the
\* clock and made (exist_ok=True: an existing one is taken as it is).
\* Two calls of one process are more than one clock reading apart.
RunJob(w) ==
    /\ UNCHANGED <<renderVars, bgVars, upVars>>
    /\ wpc[w] = "idle"
    /\ Len(jobs) < MaxJobs
    /\ now > lastT[w]
    /\ \E output_dir \in OutputDirs, size \in JobSizes,
          combination_indeces \in JobBatches :
          LET output_dir_t == JobDir(output_dir, now)
              j == [worker |-> w, output_dir |-> output_dir,
                    combination_indeces |-> combination_indeces,
                    width |-> size[1], height |-> size[2],
                    dir |-> output_dir_t,
                    batch_size |-> Len(combination_indeces),
                    i |-> 0,
                    started |-> << >>, statuses |-> << >>,
                    uploads |-> 0, uploaded |-> {},
                    result |-> "running"]
          IN /\ jobs' = Append(jobs, j)
             /\ cur' = [cur EXCEPT ![w] = Len(jobs) + 1]
             /\ dirs' = dirs \cup {output_dir_t}
    /\ lastT' = [lastT EXCEPT ![w] = now]
    /\ wpc' = [wpc EXCEPT ![w] = "loop"]
    /\ UNCHANGED <<now, procs, files>>

\* lines 51-62: the next render subprocess is started; subprocess.run waits
StartRender(w) ==
    /\ UNCHANGED <<renderVars, bgVars, upVars>>
    /\ wpc[w] = "loop"
    /\ LET j == jobs[cur[w]]
       IN /\ ~LoopOver(j.i, j.batch_size)
          /\ j.i < j.batch_size
          /\ procs' = procs \cup
                 {[worker |-> w, job |-> cur[w], i |-> j.i,
                   args |-> RenderArgs(j, j.i)]}
          /\ jobs' = [jobs EXCEPT ![cur[w]].started = Append(@, j.i)]
    /\ wpc' = [wpc EXCEPT ![w] = AfterSubprocessStart]
    /\ UNCHANGED <<now, cur, lastT, dirs, files>>

\* line 62: the subprocess exits. Its status is the environment's: 0 with
\* the video and the scene file written, or non-zero.
RenderExit(w) ==
    /\ UNCHANGED <<renderVars, bgVars, upVars>>
    /\ wpc[w] = "wait"
    /\ \E p \in procs, status \in {0, 1} :
          /\ p.worker = w
          /\ procs' = procs \ {p}
          /\ LET written ==
                     IF status = 0
                     THEN {[dir |-> p.args.output_dir, name |-> n, by |-> p.job] :
                              n \in {VideoName(p.args.combination_index),
                                     BlendName(p.args.combination_index)}}
                     ELSE {}
                 kept == {f \in files :
                             \A g \in written : ~(g.dir = f.dir /\ g.name = f.name)}
             IN files' = kept \cup written
          /\ IF CheckRaises(status)
             THEN /\ jobs' = [jobs EXCEPT
                                 ![cur[w]].statuses = Append(@, status),
                                 ![cur[w]].result = "CalledProcessError"]
                  /\ wpc' = [wpc EXCEPT ![w] = "idle"]
                  /\ cur' = [cur EXCEPT ![w] = 0]
             ELSE /\ jobs' = [jobs EXCEPT
                                 ![cur[w]].statuses = Append(@, status),
                                 ![cur[w]].i = @ + 1]
                  /\ wpc' = [wpc EXCEPT ![w] = "loop"]
                  /\ UNCHANGED cur
    /\ UNCHANGED <<now, lastT, dirs>>

\* line 64: after the loop, the directory is uploaded
Upload(w) ==
    /\ UNCHANGED <<renderVars, bgVars, upVars>>
    /\ wpc[w] = "loop"
    /\ LET j == jobs[cur[w]]
       IN /\ LoopOver(j.i, j.batch_size)
          /\ jobs' = [jobs EXCEPT
                         ![cur[w]].uploads = @ + 1,
                         ![cur[w]].uploaded = FilesIn(j.dir)]
    /\ wpc' = [wpc EXCEPT ![w] = "uploaded"]
    /\ UNCHANGED <<now, cur, lastT, procs, dirs, files>>

\* line 66: return "Task completed"
Return(w) ==
    /\ UNCHANGED <<renderVars, bgVars, upVars>>
    /\ wpc[w] = "uploaded"
    /\ jobs' = [jobs EXCEPT ![cur[w]].result = "Task completed"]
    /\ wpc' = [wpc EXCEPT ![w] = "idle"]
    /\ cur' = [cur EXCEPT ![w] = 0]
    /\ UNCHANGED <<now, lastT, procs, dirs, files>>

\* the clock advances
Tick ==
    /\ UNCHANGED <<renderVars, bgVars, upVars>>
    /\ now < MaxTime
    /\ now' = now + 1
    /\ UNCHANGED <<wpc, cur, lastT, jobs, procs, dirs, files>>

Init ==
    /\ WorkerIdle
    /\ RenderIdle
    /\ BgIdle
    /\ UpIdle

Next ==
    \/ \E w \in Workers : RunJob(w)
    \/ \E w \in Workers : StartRender(w)
    \/ \E w \in Workers : RenderExit(w)
    \/ \E w \in Workers : Upload(w)
    \/ \E w \in Workers : Return(w)
    \/ Tick

Spec == Init /\ [][Next]_vars

(***************************************************************************)
(* src/simian/background.py                                                *)
(***************************************************************************)

\* the background descriptors of combinations: from, id, url
Backgrounds == [from : {"haven"}, id : {"sky"}, url : {"u1", "u2"}]

\* the "objects" lists of combinations, by uid
ObjectLists == {<< >>, <<"uid1">>}

Combinations == [objects : ObjectLists, background : Backgrounds]

\* --hdri_path
HdriPath == "backgrounds"

EnvTexNode == [name |-> "Environment Texture", type |-> "TEX_ENVIRONMENT"]

BackgroundNode == [name |-> "Background", type |-> "BACKGROUND"]

OutputNode == [name |-> "World Output", type |-> "OUTPUT_WORLD"]

EnvToBackground ==
    [from_node |-> "Environment Texture", from_socket |-> "Color",
     to_node |-> "Background", to_socket |-> "Color"]

BackgroundToOutput ==
    [from_node |-> "Background", from_socket |-> "Background",
     to_node |-> "World Output", to_socket |-> "Surface"]

NodeNames(nodes) == {n.name : n \in nodes}

\* the world node trees a scene may hold: any of the three nodes, and links
\* between the nodes that are there
Worlds ==
    {w \in [nodes : SUBSET {EnvTexNode, BackgroundNode, OutputNode},
            links : SUBSET {EnvToBackground, BackgroundToOutput},
            image : {"none"}, film_transparent : BOOLEAN, use_nodes : BOOLEAN] :
        \A l \in w.links : {l.from_node, l.to_node} \subseteq NodeNames(w.nodes)}

\* lines 6-20
get_background_path(background_path, background) ==
    background_path \o "/" \o background.from \o "/" \o background.id \o ".hdr"

\* os.path.exists
Exists(disk, path) == \E f \in disk : f.path = path

\* what requests.get(url) may do: return the image, return the body of an
\* error response (no status is looked at), or raise
Responses(url) ==
    {[raises |-> "none", content |-> "image of " \o url],
     [raises |-> "none", content |-> "error page of " \o url],
     [raises |-> "ConnectionError", content |-> ""]}

\* lines 45-51: the download happens when the file is not there
NeverDownload(disk, path) == FALSE

MustDownload(disk, path) == ~Exists(disk, path)

\* lines 22-51: the state get_background leaves, given the response that
\* requests.get would give
get_background(disk, reqs, background_path, background, response) ==
    LET path == get_background_path(background_path, background)
    IN IF ~MustDownload(disk, path)
       THEN [raises |-> "none", disk |-> disk, requests |-> reqs]
       ELSE IF response.raises # "none"
       THEN [raises |-> response.raises, disk |-> disk,
             requests |-> Append(reqs, background.url)]
       ELSE [raises |-> "none",
             disk |-> disk \cup {[path |-> path, content |-> response.content]},
             requests |-> Append(reqs, background.url)]

\* lines 77-84: the lookup of the Environment Texture node, by type
EnvTexAssumed(nodes) == FALSE

EnvTexNotFound(nodes) == ~\E node \in nodes : node.type = "TEX_ENVIRONMENT"

\* lines 90-93 and 99-102: tree.nodes.get(name), and tree.nodes.new when
\* there is no such node
GetOrNew(nodes, node) ==
    IF \E n \in nodes : n.name = node.name THEN nodes ELSE nodes \cup {node}

\* tree.links.new: an input socket holds one link
LinksNew(links, link) ==
    {l \in links : ~(l.to_node = link.to_node /\ l.to_socket = link.to_socket)}
        \cup {link}

\* lines 53-110: the state set_background leaves. loads: whether
\* bpy.data.images.load takes the file.
set_background(w, disk, reqs, background_path, background, response, loads) ==
    LET g == get_background(disk, reqs, background_path, background, response)
        path == get_background_path(background_path, background)
        w1 == [w EXCEPT !.use_nodes = TRUE]
        nodes2 == GetOrNew(w1.nodes, BackgroundNode)
        links2 == LinksNew(w1.links, EnvToBackground)
        nodes3 == GetOrNew(nodes2, OutputNode)
        links3 == LinksNew(links2, BackgroundToOutput)
    IN IF g.raises # "none"
       THEN [raises |-> g.raises, world |-> w, disk |-> g.disk,
             requests |-> g.requests]
       ELSE IF EnvTexNotFound(w1.nodes)
       THEN [raises |-> "ValueError", world |-> w1, disk |-> g.disk,
             requests |-> g.requests]
       ELSE IF ~loads
       THEN [raises |-> "RuntimeError", world |-> w1, disk |-> g.disk,
             requests |-> g.requests]
       ELSE [raises |-> "none",
             world |-> [w1 EXCEPT !.image = path, !.nodes = nodes3,
                                  !.links = links3,
                                  !.film_transparent = FALSE],
             disk |-> g.disk, requests |-> g.requests]

\* bpy.data.images.load takes an image; what it does with a file that is
\* no image is the host's
LoadOutcomes(disk, path) ==
    IF \E f \in disk : f.path = path /\ SubSeq(f.content, 1, 5) = "image"
    THEN {TRUE}
    ELSE BOOLEAN

\* calls of set_background and get_background made in one behaviour
MaxBgCalls == 2

\* a caller calls set_background(background_path, combination)
SetBackgroundCall ==
    /\ UNCHANGED <<workerVars, renderVars, upVars>>
    /\ bgpc \in {"ready", "returned", "raised"}
    /\ Len(bgarg) < MaxBgCalls
    /\ \E background \in Backgrounds :
       \E response \in Responses(background.url) :
          LET path == get_background_path(HdriPath, background)
              g == get_background(hdr, requests, HdriPath, background, response)
          IN \E loads \in LoadOutcomes(g.disk, path) :
                LET r == set_background(world, hdr, requests, HdriPath,
                                        background, response, loads)
                IN /\ world' = r.world
                   /\ hdr' = r.disk
                   /\ requests' = r.requests
                   /\ bgexc' = r.raises
                   /\ bgpc' = IF r.raises = "none" THEN "returned" ELSE "raised"
                   /\ bgarg' = Append(bgarg,
                          [fn |-> "set_background", background |-> background,
                           world |-> world, hdr |-> hdr,
                           requests |-> requests, response |-> response])

\* a caller calls get_background(background_path, combination)
GetBackgroundCall ==
    /\ UNCHANGED <<workerVars, renderVars, upVars>>
    /\ bgpc \in {"ready", "returned", "raised"}
    /\ Len(bgarg) < MaxBgCalls
    /\ \E background \in Backgrounds :
       \E response \in Responses(background.url) :
          LET g == get_background(hdr, requests, HdriPath, background, response)
          IN /\ hdr' = g.disk
             /\ requests' = g.requests
             /\ bgexc' = g.raises
             /\ bgpc' = IF g.raises = "none" THEN "returned" ELSE "raised"
             /\ bgarg' = Append(bgarg,
                    [fn |-> "get_background", background |-> background,
                     world |-> world, hdr |-> hdr,
                     requests |-> requests, response |-> response])
    /\ UNCHANGED world

\* a scene with any world node tree, and no background on disk yet
BgInit ==
    /\ WorkerIdle
    /\ RenderIdle
    /\ UpIdle
    /\ world \in Worlds
    /\ hdr = {}
    /\ requests = << >>
    /\ bgpc = "ready"
    /\ bgarg = << >>
    /\ bgexc = "none"

BgNext ==
    \/ SetBackgroundCall
    \/ GetBackgroundCall

SpecBackground == BgInit /\ [][BgNext]_vars

(***************************************************************************)
(* src/simian/render.py: render_scene, as python -m simian.render runs it. *)
(***************************************************************************)

\* --scene values: none given, the flag alone ("infinigen"), a path
NoScene == "None"

SceneArgs == {NoScene, "infinigen", "base.blend"}

\* the states of the file a --scene path names
BlendStates == {"missing", "corrupt", "ok"}

\* --combination_index values
Indices == {0, 1, 11}

\* (--start_frame, --end_frame, --animation_length): the defaults of
\* render.py, those of run_job, and a short range
FrameArgs == {<<1, 65, 120>>, <<0, 65, 120>>, <<1, 3, 2>>}

\* (--width, --height) values
SizeArgs == {<<1920, 1080>>, <<512, 512>>}

\* the arguments of a render invocation
RenderCalls ==
    [user_blend_file : SceneArgs, render_images : BOOLEAN,
     combination_index : Indices, frames : FrameArgs, size : SizeArgs,
     combination : Combinations]

\* the scene initialize_scene() leaves: the host's defaults, nothing loaded
NewScene ==
    [base |-> "default", objects |-> << >>,
     frame_start |-> 1, frame_end |-> 250, frame_current |-> 1,
     resolution_x |-> 1920, resolution_y |-> 1080, filepath |-> ""]

\* lines 97-108: what load_user_blend_file logs; it returns False when the
\* file does not exist or bpy.ops.wm.open_mainfile raises
LoadLog(user_blend_file, state) ==
    CASE state = "missing" ->
            <<[by |-> "load_user_blend_file", error |-> "does not exist",
               file |-> user_blend_file]>>
      [] state = "corrupt" ->
            <<[by |-> "load_user_blend_file", error |-> "Failed to load",
               file |-> user_blend_file]>>
      [] OTHER -> << >>

LoadAlwaysTrue(state) == TRUE

load_user_blend_file(state) == state = "ok"

\* lines 43-78: subprocess is not imported by render.py, so subprocess.run
\* raises NameError inside the try, and so does evaluating
\* "except subprocess.TimeoutExpired": the NameError leaves the function
generate_random_scene == [raises |-> "NameError", returns |-> ""]

\* lines 162-166: the output directory is made and the scene initialized
RenderSceneEntry ==
    /\ UNCHANGED <<workerVars, bgVars, upVars>>
    /\ rpc = "entry"
    /\ scene' = NewScene
    /\ rpc' = "line168"
    /\ UNCHANGED <<random_folder, rarg, call, blend, rlog, renders, outfiles, rexc>>

\* lines 168-176: the base scene is generated or loaded; a scene that does
\* not load is logged and render_scene returns
LoadScene ==
    /\ UNCHANGED <<workerVars, bgVars, upVars>>
    /\ rpc = "line168"
    /\ IF rarg.user_blend_file = "infinigen"
       THEN /\ rexc' = generate_random_scene.raises
            /\ rpc' = "raised"
            /\ UNCHANGED <<scene, rlog>>
       ELSE IF rarg.user_blend_file # NoScene
       THEN IF load_user_blend_file(blend)
            THEN /\ scene' = [scene EXCEPT !.base = rarg.user_blend_file]
                 /\ rlog' = rlog \o LoadLog(rarg.user_blend_file, blend)
                 /\ rpc' = "line178"
                 /\ UNCHANGED rexc
            ELSE /\ rlog' = rlog \o LoadLog(rarg.user_blend_file, blend) \o
                        <<[by |-> "render_scene", error |-> "Unable to load",
                           file |-> rarg.user_blend_file]>>
                 /\ rpc' = "returned"
                 /\ UNCHANGED <<scene, rexc>>
       ELSE /\ rpc' = "line178"
            /\ UNCHANGED <<scene, rlog, rexc>>
    /\ UNCHANGED <<random_folder, rarg, call, blend, renders, outfiles>>

\* line 178: delete__folder is no name of the module (the function of
\* lines 111-130 is delete_folder): the call raises NameError
DeleteFolderCall ==
    /\ UNCHANGED <<workerVars, bgVars, upVars>>
    /\ rpc = "line178"
    /\ rexc' = "NameError"
    /\ rpc' = "raised"
    /\ UNCHANGED <<random_folder, rarg, call, blend, scene, rlog, renders, outfiles>>

\* python -m simian.render with any arguments, on any state of the file
\* that --scene names
\* the render_scene calls made one after the other on one host
MaxRenderCalls == 2

\* what infinigen/outputs/random holds when the first call starts: nothing,
\* or the folder of a scene generated on the host before
RandomFolders == {{}, {"seed_0"}}

\* lines 386-399: the next render invocation on the same host, in a new
\* process; the files on the host stay as the earlier calls left them
NextCall ==
    /\ UNCHANGED <<workerVars, bgVars, upVars>>
    /\ rpc \in {"returned", "raised"}
    /\ call < MaxRenderCalls
    /\ call' = call + 1
    /\ \E u \in SceneArgs : rarg' = [rarg EXCEPT !.user_blend_file = u]
    /\ rpc' = "entry"
    /\ scene' = << >>
    /\ rlog' = << >>
    /\ renders' = << >>
    /\ rexc' = "none"
    /\ UNCHANGED <<blend, outfiles, random_folder>>

RenderInit ==
    /\ WorkerIdle
    /\ BgIdle
    /\ UpIdle
    /\ rpc = "entry"
    /\ rarg \in RenderCalls
    /\ call = 1
    /\ blend \in BlendStates
    /\ scene = << >>
    /\ rlog = << >>
    /\ renders = << >>
    /\ outfiles = {}
    /\ rexc = "none"
    /\ random_folder \in [generated : RandomFolders, deleted_in : {{}}]

RenderNext ==
    \/ RenderSceneEntry
    \/ LoadScene
    \/ DeleteFolderCall
    \/ NextCall

SpecRender == RenderInit /\ [][RenderNext]_vars

(***************************************************************************)
(* src/simian/render.py, lines 180-287: what render_scene does with a      *)
(* scene once the base scene is there. Line 178 stands between the entry   *)
(* of render_scene and these lines (see DeleteFolderCall); SpecBody is     *)
(* this block on its own, entered with any arguments, twice into one       *)
(* output_dir.                                                             *)
(***************************************************************************)

\* lines 248-252
sizes == {<<1920, 1080>>, <<1024, 1024>>, <<512, 512>>}

\* lines 263-266
ImageName(combination_index, middle_frame, size) ==
    ToString(combination_index) \o "_frame_" \o ToString(middle_frame) \o "_"
        \o ToString(size[1]) \o "x" \o ToString(size[2]) \o ".png"

\* Python's floor division by 2
FloorDiv2(n) == IF n >= 0 THEN n \div 2 ELSE -((1 - n) \div 2)

\* line 256
MiddleFrame(frame_start, frame_end) == FloorDiv2(frame_start + frame_end)

FrameStartFromStart(start_frame, end_frame, animation_length) == start_frame

\* line 184
FrameStart(start_frame, end_frame, animation_length) ==
    animation_length - (end_frame - start_frame)

\* lines 272-273
VideoResolution == <<1920, 1080>>

\* the world node trees of the scenes SpecBody starts from: the host's
\* default world, and one with an Environment Texture node
BodyWorlds ==
    {[nodes |-> {BackgroundNode, OutputNode}, links |-> {BackgroundToOutput},
      image |-> "none", film_transparent |-> FALSE, use_nodes |-> TRUE],
     [nodes |-> {EnvTexNode, BackgroundNode, OutputNode},
      links |-> {EnvToBackground, BackgroundToOutput},
      image |-> "none", film_transparent |-> FALSE, use_nodes |-> TRUE]}

\* the arguments with which line 180 is reached: no base scene, or one that
\* loaded
BodyCalls ==
    {c \in RenderCalls : c.user_blend_file \in {NoScene, "base.blend"}}

\* a file written into output_dir by this call
Written(name) ==
    [name |-> name, combination_index |-> rarg.combination_index,
     call |-> call]

\* lines 180-188: the camera rig, and the frame range
SetFrames ==
    /\ UNCHANGED <<workerVars, bgVars, upVars>>
    /\ rpc = "line180"
    /\ scene' = [scene EXCEPT
                    !.frame_start = FrameStart(rarg.frames[1], rarg.frames[2],
                                               rarg.frames[3]),
                    !.frame_end = rarg.frames[3]]
    /\ rpc' = "line190"
    /\ UNCHANGED <<random_folder, rarg, call, blend, rlog, renders, outfiles, rexc>>

\* lines 190-231: the objects of the combination are loaded. objaverse is
\* no name of the module ("import simian.vendor.objaverse" binds simian):
\* the first object raises NameError at line 199
LoadObjects ==
    /\ UNCHANGED <<workerVars, bgVars, upVars>>
    /\ rpc = "line190"
    /\ IF rarg.combination.objects # << >>
       THEN /\ rexc' = "NameError"
            /\ rpc' = "raised"
       ELSE /\ rpc' = "line233"
            /\ UNCHANGED rexc
    /\ UNCHANGED <<random_folder, rarg, call, blend, scene, rlog, renders, outfiles>>

\* lines 233-245: the camera; without a base scene, the background (an
\* exception of set_background leaves render_scene), photosphere and stage
Decorate ==
    /\ UNCHANGED <<workerVars, upVars>>
    /\ rpc = "line233"
    /\ IF rarg.user_blend_file = NoScene
       THEN \E response \in Responses(rarg.combination.background.url) :
               LET background == rarg.combination.background
                   path == get_background_path(HdriPath, background)
                   g == get_background(hdr, requests, HdriPath, background,
                                       response)
               IN \E loads \in LoadOutcomes(g.disk, path) :
                     LET r == set_background(world, hdr, requests, HdriPath,
                                             background, response, loads)
                     IN /\ world' = r.world
                        /\ hdr' = r.disk
                        /\ requests' = r.requests
                        /\ rexc' = r.raises
                        /\ rpc' = IF r.raises = "none" THEN "line254"
                                  ELSE "raised"
       ELSE /\ rpc' = "line254"
            /\ UNCHANGED <<world, hdr, requests, rexc>>
    /\ UNCHANGED <<bgpc, bgarg, bgexc>>
    /\ UNCHANGED <<random_folder, rarg, call, blend, scene, rlog, renders, outfiles>>

\* lines 254-267 and 272-282: the render settings
Configure ==
    /\ UNCHANGED <<workerVars, bgVars, upVars>>
    /\ rpc = "line254"
    /\ IF rarg.render_images
       THEN \E size \in sizes :
               LET middle_frame ==
                       MiddleFrame(scene.frame_start, scene.frame_end)
               IN scene' = [scene EXCEPT
                      !.frame_current = middle_frame,
                      !.resolution_x = size[1],
                      !.resolution_y = size[2],
                      !.filepath = ImageName(rarg.combination_index,
                                             middle_frame, size)]
       ELSE scene' = [scene EXCEPT
                !.resolution_x = VideoResolution[1],
                !.resolution_y = VideoResolution[2],
                !.filepath = VideoName(rarg.combination_index)]
    /\ rpc' = "render"
    /\ UNCHANGED <<random_folder, rarg, call, blend, rlog, renders, outfiles, rexc>>

\* lines 268 and 283: the renderer is invoked with the scene as it is; it
\* writes scene.render.filepath, or fails
InvokeRenderer ==
    /\ UNCHANGED <<workerVars, bgVars, upVars>>
    /\ rpc = "render"
    /\ renders' = Append(renders,
           [animation |-> ~rarg.render_images,
            resolution_x |-> scene.resolution_x,
            resolution_y |-> scene.resolution_y,
            filepath |-> scene.filepath])
    /\ \/ /\ outfiles' = outfiles \cup {Written(scene.filepath)}
          /\ rpc' = IF rarg.render_images THEN "returned" ELSE "line284"
          /\ UNCHANGED rexc
       \/ /\ rexc' = "RuntimeError"
          /\ rpc' = "raised"
          /\ UNCHANGED outfiles
    /\ UNCHANGED <<random_folder, rarg, call, blend, scene, rlog>>

\* lines 284-286: the scene is saved beside the video
SaveMainfile ==
    /\ UNCHANGED <<workerVars, bgVars, upVars>>
    /\ rpc = "line284"
    /\ \/ /\ outfiles' = outfiles \cup
                 {Written(BlendName(rarg.combination_index))}
          /\ rpc' = "returned"
          /\ UNCHANGED rexc
       \/ /\ rexc' = "RuntimeError"
          /\ rpc' = "raised"
          /\ UNCHANGED outfiles
    /\ UNCHANGED <<random_folder, rarg, call, blend, scene, rlog, renders>>

\* a second render invocation into the same output_dir, in a new process
NextRender ==
    /\ UNCHANGED <<workerVars, upVars>>
    /\ rpc \in {"returned", "raised"}
    /\ call = 1
    /\ call' = 2
    /\ rarg' \in BodyCalls
    /\ scene' = [NewScene EXCEPT
                    !.base = IF rarg'.user_blend_file = NoScene
                             THEN "default" ELSE rarg'.user_blend_file]
    /\ world' \in BodyWorlds
    /\ rpc' = "line180"
    /\ rexc' = "none"
    /\ renders' = << >>
    /\ UNCHANGED <<blend, rlog, outfiles, random_folder>>
    /\ UNCHANGED <<hdr, requests, bgpc, bgarg, bgexc>>

BodyInit ==
    /\ WorkerIdle
    /\ UpIdle
    /\ rpc = "line180"
    /\ rarg \in BodyCalls
    /\ call = 1
    /\ blend = "ok"
    /\ scene = [NewScene EXCEPT
                   !.base = IF rarg.user_blend_file = NoScene
                            THEN "default" ELSE rarg.user_blend_file]
    /\ rlog = << >>
    /\ renders = << >>
    /\ outfiles = {}
    /\ rexc = "none"
    /\ random_folder = [generated |-> {}, deleted_in |-> {}]
    /\ world \in BodyWorlds
    /\ hdr = {}
    /\ requests = << >>
    /\ bgpc = "none"
    /\ bgarg = << >>
    /\ bgexc = "none"

BodyNext ==
    \/ SetFrames
    \/ LoadObjects
    \/ Decorate
    \/ Configure
    \/ InvokeRenderer
    \/ SaveMainfile
    \/ NextRender

SpecBody == BodyInit /\ [][BodyNext]_vars

(***************************************************************************)
(* The same lines for one call with a base scene and no objects, over      *)
(* every frame range within a bound: SpecFrames.                           *)
(***************************************************************************)

\* the largest absolute value of --start_frame, --end_frame and
\* --animation_length
MaxFrame == 3

\* (start_frame, end_frame, animation_length); argparse takes any int
FrameTriples ==
    {<<s, e, al>> : s \in -MaxFrame .. MaxFrame, e \in -MaxFrame .. MaxFrame,
                    al \in -MaxFrame .. MaxFrame}

FrameCalls ==
    [user_blend_file : {"base.blend"}, render_images : BOOLEAN,
     combination_index : {0}, frames : FrameTriples, size : {<<512, 512>>},
     combination : {c \in Combinations :
                        c.objects = << >> /\ c.background.url = "u1"}]

FramesInit ==
    /\ WorkerIdle
    /\ BgIdle
    /\ UpIdle
    /\ rpc = "line180"
    /\ rarg \in FrameCalls
    /\ call = 1
    /\ blend = "ok"
    /\ scene = [NewScene EXCEPT !.base = rarg.user_blend_file]
    /\ rlog = << >>
    /\ renders = << >>
    /\ outfiles = {}
    /\ rexc = "none"
    /\ random_folder = [generated |-> {}, deleted_in |-> {}]

FramesNext ==
    \/ SetFrames
    \/ LoadObjects
    \/ Decorate
    \/ Configure
    \/ InvokeRenderer
    \/ SaveMainfile

SpecFrames == FramesInit /\ [][FramesNext]_vars

(***************************************************************************)
(* simian.utils.upload_to_huggingface, which src/ does not hold, as        *)
(* spec.md section 8 and its test src/tests/hf_test.py describe it.        *)
(***************************************************************************)

\* the files a local directory may hold
FileNames == {"test.txt", "0.mp4", "0.blend"}

\* combination["repo_id"] and combination["upload_path"] (HF_REPO_ID, HF_PATH)
UploadCombinations ==
    [repo_id : {"user/renders", "user/test"}, upload_path : {"data", "runs/v1"}]

\* os.path.join(repo_path, test_file)
os_path_join(a, b) == a \o "/" \o b

\* where a file of the directory goes in the repository
RepoPathFlat(upload_path, name) == name

RepoPath(upload_path, name) == os_path_join(upload_path, name)

\* api.file_exists(repo_id, filename, repo_type="dataset")
file_exists(repo_id, filename) ==
    [repo_id |-> repo_id, path |-> filename] \in remote

\* one file of the directory is uploaded, or the hub refuses and the
\* exception leaves upload_to_huggingface
UploadFile ==
    /\ UNCHANGED <<workerVars, renderVars, bgVars>>
    /\ upc = "uploading"
    /\ \E name \in utodo :
          \/ /\ remote' = remote \cup
                    {[repo_id |-> ucomb.repo_id,
                      path |-> RepoPath(ucomb.upload_path, name)]}
             /\ utodo' = utodo \ {name}
             /\ UNCHANGED upc
          \/ /\ upc' = "raised"
             /\ UNCHANGED <<remote, utodo>>
    /\ UNCHANGED <<udir, ucomb>>

\* every file has been uploaded: upload_to_huggingface returns
UploadReturn ==
    /\ UNCHANGED <<workerVars, renderVars, bgVars>>
    /\ upc = "uploading"
    /\ utodo = {}
    /\ upc' = "returned"
    /\ UNCHANGED <<udir, ucomb, remote, utodo>>

\* hf_test.py lines 40-44: the test asserts that its file is in the
\* repository
TestAssert ==
    /\ UNCHANGED <<workerVars, renderVars, bgVars>>
    /\ upc = "returned"
    /\ "test.txt" \in udir
    /\ upc' = IF file_exists(ucomb.repo_id,
                             os_path_join(ucomb.upload_path, "test.txt"))
              THEN "test passed" ELSE "test failed"
    /\ UNCHANGED <<udir, ucomb, remote, utodo>>

\* upload_to_huggingface(directory, combination) is called on a directory
\* (the test's holds test.txt alone)
UploadInit ==
    /\ WorkerIdle
    /\ RenderIdle
    /\ BgIdle
    /\ upc = "uploading"
    /\ udir \in SUBSET FileNames
    /\ utodo = udir
    /\ ucomb \in UploadCombinations
    /\ remote = {}

UploadNext ==
    \/ UploadFile
    \/ UploadReturn
    \/ TestAssert

SpecUpload == UploadInit /\ [][UploadNext]_vars

(***************************************************************************)
(* Claims about run_job (specification Spec).                              *)
(***************************************************************************)

JobIds == 1..Len(jobs)

ProcsOf(id) == {p \in procs : p.job = id}

AllZero(statuses) == \A k \in DOMAIN statuses : statuses[k] = 0

\* C1: in every execution of run_job the output directory is uploaded at
\* most once, and when it has been uploaded every render subprocess of the
\* job (one per entry of combination_indeces) has been started and has
\* exited with status 0, and none of the job is still running.
C1_UploadAfterAllRenders ==
    \A id \in JobIds :
        LET j == jobs[id]
        IN /\ j.uploads <= 1
           /\ j.uploads = 1 =>
                 /\ Len(j.started) = Len(j.combination_indeces)
                 /\ Len(j.statuses) = Len(j.combination_indeces)
                 /\ AllZero(j.statuses)
                 /\ ProcsOf(id) = {}

\* a job of two renders has uploaded
C1_Witness ==
    \E id \in JobIds :
        /\ jobs[id].uploads = 1
        /\ Len(jobs[id].combination_indeces) = 2
        /\ jobs[id].statuses = <<0, 0>>

\* C2: a run_job execution that reaches "Task completed" has deleted its
\* local output directory.
C2_LocalCopiesDeleted ==
    \A id \in JobIds :
        jobs[id].result = "Task completed" => jobs[id].dir \notin dirs

\* C3: once a render subprocess of a job has exited with a non-zero status,
\* the job has raised CalledProcessError, that status is the last one, no
\* render was started after it, no loop position was started twice, nothing
\* was uploaded and the job does not end "Task completed".
C3_NonZeroExitRaises ==
    \A id \in JobIds :
        LET j == jobs[id]
        IN (\E k \in DOMAIN j.statuses : j.statuses[k] # 0) =>
              /\ j.result = "CalledProcessError"
              /\ \A k \in DOMAIN j.statuses :
                     j.statuses[k] # 0 => k = Len(j.statuses)
              /\ Len(j.started) = Len(j.statuses)
              /\ \A a, b \in DOMAIN j.started :
                     j.started[a] = j.started[b] => a = b
              /\ ProcsOf(id) = {}
              /\ j.uploads = 0
              /\ j.uploaded = {}

\* the second render of a job of two has failed
C3_Witness ==
    \E id \in JobIds :
        /\ jobs[id].statuses = <<0, 1>>
        /\ Len(jobs[id].combination_indeces) = 2
        /\ jobs[id].result = "CalledProcessError"

C10_UniqueJobDirs ==
    /\ \A a, b \in JobIds :
          (a # b /\ jobs[a].output_dir = jobs[b].output_dir) =>
              jobs[a].dir # jobs[b].dir
    /\ \A id \in JobIds : \A f \in jobs[id].uploaded : f.by = id

(***************************************************************************)
(* Claims about render_scene from its entry (specification SpecRender).    *)
(***************************************************************************)

BadBlendFile ==
    /\ rarg.user_blend_file \notin {NoScene, "infinigen"}
    /\ blend \in {"missing", "corrupt"}

\* C5: a render_scene call given a base-scene path that does not exist or
\* cannot be opened ends by returning, with the error of
\* load_user_blend_file logged, no object loaded, the renderer never invoked
\* and no artifact written to output_dir.
C5_BadBlendFileReturnsEarly ==
    (BadBlendFile /\ rpc \notin {"entry", "line168"}) =>
        /\ rpc = "returned"
        /\ rexc = "none"
        /\ Len(rlog) = 2
        /\ rlog[1].by = "load_user_blend_file"
        /\ rlog[1].file = rarg.user_blend_file
        /\ rlog[1].error =
               (IF blend = "missing" THEN "does not exist" ELSE "Failed to load")
        /\ scene.base = "default"
        /\ scene.objects = << >>
        /\ renders = << >>
        /\ outfiles = {}

\* render_scene has returned early on a file that exists and does not open
C5_Witness ==
    /\ rpc = "returned"
    /\ rarg.user_blend_file = "base.blend"
    /\ blend = "corrupt"
    /\ Len(rlog) = 2

\* C12: a render_scene call with user_blend_file = "infinigen" whose scene
\* generation fails ends by returning, no exception leaving it, with an
\* error logged, the renderer never invoked and no artifact written.
C12_GenerationFailureReturnsEarly ==
    (rpc \notin {"none", "entry", "line168"} /\ rarg.user_blend_file = "infinigen") =>
        /\ rpc = "returned"
        /\ rexc = "none"
        /\ Len(rlog) > 0
        /\ renders = << >>
        /\ outfiles = {}

\* C13: when a render_scene call with user_blend_file = "infinigen" that
\* is not the first comes to generate its scene, outputs/random holds no
\* generated folder, delete_folder having run in every earlier call.
C13_RandomFolderEmptyAtGeneration ==
    (rpc = "line168" /\ call > 1 /\ rarg.user_blend_file = "infinigen") =>
        /\ random_folder.generated = {}
        /\ random_folder.deleted_in = 1 .. (call - 1)

(***************************************************************************)
(* Claims about set_background (specification SpecBackground).             *)
(***************************************************************************)

\* the latest call, with the state it started from
LastBg == bgarg[Len(bgarg)]

SetBackgroundOver ==
    /\ Len(bgarg) > 0
    /\ LastBg.fn = "set_background"

Missing(node) == node.name \notin NodeNames(LastBg.world.nodes)

DiskAfter(k) == IF k = Len(bgarg) THEN hdr ELSE bgarg[k + 1].hdr

RequestsAfter(k) == IF k = Len(bgarg) THEN requests ELSE bgarg[k + 1].requests

GetCalls == {k \in DOMAIN bgarg : bgarg[k].fn = "get_background"}

PathOf(k) == get_background_path(HdriPath, bgarg[k].background)

ContentAt(disk, path) == {f.content : f \in {g \in disk : g.path = path}}

\* C11 (as claimed): whenever the file is there after a get_background
\* call, its content is the image served at the URL of the call's
\* combination.
C11_FileIsImageOfUrl ==
    \A k \in GetCalls :
        ContentAt(DiskAfter(k), PathOf(k)) \subseteq
            {"image of " \o bgarg[k].background.url}

\* C11 (the part the code keeps): get_background requests the URL exactly
\* when the file is not at <background_path>/<from>/<id>.hdr. A call that
\* finds the file makes no request and leaves the disk as it is, so after
\* one call has written the file no later call with the same "from" and
\* "id" requests anything or changes the content; a call that does not find
\* it makes one request, to the combination's URL, and writes the body of
\* the response, whatever it is, or leaves no file when the request raises.
C11_DownloadsIffAbsent ==
    /\ \A k \in GetCalls :
          LET c == bgarg[k]
          IN IF Exists(c.hdr, PathOf(k))
             THEN /\ RequestsAfter(k) = c.requests
                  /\ DiskAfter(k) = c.hdr
             ELSE /\ RequestsAfter(k) = Append(c.requests, c.background.url)
                  /\ ContentAt(DiskAfter(k), PathOf(k)) =
                        (IF c.response.raises = "none"
                         THEN {c.response.content} ELSE {})
    /\ \A j, k \in GetCalls :
          (j < k /\ PathOf(j) = PathOf(k) /\ Exists(DiskAfter(j), PathOf(j))) =>
              /\ RequestsAfter(k) = RequestsAfter(j)
              /\ ContentAt(DiskAfter(k), PathOf(k)) =
                    ContentAt(DiskAfter(j), PathOf(j))

\* a second get_background call has found the file the first one wrote
C11_Witness ==
    /\ Len(bgarg) = 2
    /\ GetCalls = {1, 2}
    /\ bgpc = "returned"
    /\ Len(requests) = 1
    /\ ~Exists(bgarg[1].hdr, PathOf(1))
    /\ Exists(hdr, PathOf(2))

(***************************************************************************)
(* Claims about lines 180-287 of render_scene (specification SpecBody).    *)
(***************************************************************************)

WrittenBy(c) == {f \in outfiles : f.call = c}

StartsWith(str, prefix) ==
    /\ Len(str) >= Len(prefix)
    /\ SubSeq(str, 1, Len(prefix)) = prefix

EndsWith(str, suffix) ==
    /\ Len(str) >= Len(suffix)
    /\ SubSeq(str, Len(str) - Len(suffix) + 1, Len(str)) = suffix

MiddleFrameSet ==
    /\ rarg.render_images
    /\ \/ rpc \in {"render", "returned"}
       \/ Len(renders) > 0

C8_UploadedFilesPresent ==
    upc \in {"returned", "test passed", "test failed"} =>
        /\ \A name \in udir :
              [repo_id |-> ucomb.repo_id,
               path |-> ucomb.upload_path \o "/" \o name] \in remote
        /\ upc # "test failed"

\* the upload of a directory of three files has returned and the test's
\* assertion has passed
C8_Witness ==
    /\ upc = "test passed"
    /\ udir = FileNames
    /\ ucomb.upload_path = "runs/v1"

=============================================================================
